---- MODULE Spec2Model ----
(***************************************************************************)
(* Multi-agent resume scoring engine (backend/app/services).               *)
(*                                                                         *)
(* The model follows scoring_coordinator.py and the five agents under      *)
(* services/agents.  Python floats are modelled as exact rationals         *)
(* [num, den]; a text is modelled by what the agents' regular expressions  *)
(* find in it (the keyword set, the matched year figures, the date         *)
(* ranges, the degree classes, ...), which is the input every agent       *)
(* actually computes on.                                                   *)
(***************************************************************************)
EXTENDS Integers, Sequences, FiniteSets, TLC

VARIABLES
    weight,            \* agent.weight of the five agents held by the coordinator
    coordinator,       \* "constructing" | "ready" | "ValueError"
    pc,                \* position of score_resume
    input,             \* the (resume, job) pair of the current call
    forced,            \* agents whose analyze is stubbed to raise
    task,              \* asyncio task per agent: "none" | "pending" | "returned" | "raised"
    taskResult,        \* value held by a finished task
    agent_results,     \* dict agent -> AgentResult built by the await loop
    idx,               \* position of the await loop in agent_tasks
    total_score,
    total_confidence,
    breakdown,         \* <<>> or <<ScoringBreakdown>> returned by the call
    prev,              \* <<>> or <<breakdown of the previous call on the same input>>
    ncall              \* number of the call on the current input

vars == <<weight, coordinator, pc, input, forced, task, taskResult,
          agent_results, idx, total_score, total_confidence, breakdown,
          prev, ncall>>

----------------------------------------------------------------------------
(* Bounds of the model *)

MaxVocab == 2          \* vocabulary keywords that occur in the texts
MaxWords == 2          \* words per text
MaxJobSkills == 2      \* declared job skills
MaxCalls == 2          \* consecutive calls on one input
MaxMentions == 2       \* skill mentions in the resume text
MaxSkills == 2         \* skills of a taxonomy
MaxVariations == 1     \* variations listed for one skill
DeltaW == 3            \* weight perturbation, in 1/10000

----------------------------------------------------------------------------
(* Exact rational arithmetic standing for Python floats *)

Abs(x) == IF x < 0 THEN -x ELSE x

RECURSIVE GCD(_, _)
GCD(a, b) == IF b = 0 THEN a ELSE GCD(b, a % b)

LCM(a, b) == (a \div GCD(a, b)) * b

Rat(n, d) ==
    LET g == GCD(Abs(n), Abs(d))
        s == IF d < 0 THEN -1 ELSE 1
    IN  [num |-> (s * n) \div g, den |-> (s * d) \div g]

Zero == Rat(0, 1)
One == Rat(1, 1)
Hundred == Rat(100, 1)

RAdd(a, b) ==
    LET l == LCM(a.den, b.den)
    IN  Rat(a.num * (l \div a.den) + b.num * (l \div b.den), l)

RNeg(a) == [num |-> -a.num, den |-> a.den]
RSub(a, b) == RAdd(a, RNeg(b))

RMul(a, b) ==
    LET g1 == GCD(Abs(a.num), b.den)
        g2 == GCD(Abs(b.num), a.den)
    IN  Rat((a.num \div g1) * (b.num \div g2), (a.den \div g2) * (b.den \div g1))

RDiv(a, b) == RMul(a, Rat(b.den, b.num))

RLe(a, b) == a.num * b.den <= b.num * a.den
RLt(a, b) == a.num * b.den < b.num * a.den
RMin(a, b) == IF RLt(b, a) THEN b ELSE a      \* Python min(a, b)
RMax(a, b) == IF RLt(a, b) THEN b ELSE a      \* Python max(a, b)
RAbs(a) == [num |-> Abs(a.num), den |-> a.den]

InUnit(r) == RLe(Zero, r) /\ RLe(r, One)

Max(S) == CHOOSE x \in S : \A y \in S : y <= x

----------------------------------------------------------------------------
(* Agents and their results *)

KEYWORD_MATCHING == "keyword_matching"
SKILL_MATCHING == "skill_matching"
EXPERIENCE_RELEVANCE == "experience_relevance"
EDUCATION_ALIGNMENT == "education_alignment"
SEMANTIC_SIMILARITY == "semantic_similarity"

\* insertion order of the coordinator's self.agents dict
AgentOrder == <<KEYWORD_MATCHING, SKILL_MATCHING, EXPERIENCE_RELEVANCE,
                EDUCATION_ALIGNMENT, SEMANTIC_SIMILARITY>>

AgentType == {AgentOrder[i] : i \in 1..Len(AgentOrder)}

None == "None"
NoEvidence == [none |-> TRUE]

ConfiguredWeights ==
    [a \in AgentType |->
        CASE a = KEYWORD_MATCHING -> Rat(20, 100)
          [] a = SKILL_MATCHING -> Rat(25, 100)
          [] a = EXPERIENCE_RELEVANCE -> Rat(20, 100)
          [] a = EDUCATION_ALIGNMENT -> Rat(10, 100)
          [] a = SEMANTIC_SIMILARITY -> Rat(25, 100)]

\* "percentage=score * 100", from the score as passed in
create_result_percentage(score) == RMul(score, Hundred)

\* mutation of create_result_score: the clamp is missing
create_result_score_unclamped(score) == score

\* "score=max(0.0, min(1.0, score))"
create_result_score(score) == RMax(Zero, RMin(One, score))

create_result(a, score, evidence, confidence, error) ==
    [agent_type |-> a,
     score |-> create_result_score(score),
     percentage |-> create_result_percentage(score),
     weight |-> weight[a],
     evidence |-> evidence,
     confidence |-> confidence,
     error |-> error]

----------------------------------------------------------------------------
(* Shared text helpers of BaseAgent.  job.requirements or job.skills that   *)
(* is not a list of strings (None) makes ' '.join raise a TypeError.        *)

extract_job_content_raises(inp) == inp.malformed \in {"requirements", "skills"}

----------------------------------------------------------------------------
(* Keyword matching agent *)

VocabSeq == <<"python", "aws", "docker", "react">>
Vocab == {VocabSeq[i] : i \in 1..(IF MaxVocab < Len(VocabSeq) THEN MaxVocab ELSE Len(VocabSeq))}

\* mutation of keyword_score: the overlap is divided by the keywords of both texts
keyword_score_jaccard(matched_keywords, job_keywords) ==
    RMin(One, Rat(Cardinality(matched_keywords),
                  Cardinality(job_keywords \cup input.kw.rk)))

keyword_score(matched_keywords, job_keywords) ==
    RMin(One, Rat(Cardinality(matched_keywords), Cardinality(job_keywords)))

\* mutation of keyword_confidence: the cap min(1.0, ...) is missing
keyword_confidence_uncapped(resume_keywords, words_resume, job_keywords, words_job) ==
    RDiv(RAdd(Rat(Cardinality(resume_keywords), Max({words_resume, 1})),
              Rat(Cardinality(job_keywords), Max({words_job, 1}))),
         Rat(2, 1))

keyword_confidence(resume_keywords, words_resume, job_keywords, words_job) ==
    RMin(One,
         RDiv(RAdd(Rat(Cardinality(resume_keywords), Max({words_resume, 1})),
                   Rat(Cardinality(job_keywords), Max({words_job, 1}))),
              Rat(2, 1)))

keyword_analyze(inp) ==
    LET resume_keywords == inp.kw.rk
        job_keywords == inp.kw.jk
        matched_keywords == resume_keywords \cap job_keywords
        missing_keywords == job_keywords \ resume_keywords
    IN  IF extract_job_content_raises(inp)
        THEN create_result(KEYWORD_MATCHING, Zero, NoEvidence, Zero,
                           "Error in keyword analysis")
        ELSE IF job_keywords = {}
        THEN create_result(KEYWORD_MATCHING, Zero,
                 [resume_keywords |-> resume_keywords, job_keywords |-> {},
                  matched_keywords |-> {}, missing_keywords |-> {}],
                 Zero, "No keywords found in job description")
        ELSE create_result(KEYWORD_MATCHING,
                 keyword_score(matched_keywords, job_keywords),
                 [resume_keywords |-> resume_keywords, job_keywords |-> job_keywords,
                  matched_keywords |-> matched_keywords,
                  missing_keywords |-> missing_keywords],
                 keyword_confidence(resume_keywords, inp.kw.rwords,
                                    job_keywords, inp.kw.jwords),
                 None)

----------------------------------------------------------------------------
(* Skill matching agent *)

\* skill_taxonomy.json: canonical skill -> variations, in file order
Taxonomy == << [skill |-> "python", variations |-> <<"py">>],
               [skill |-> "aws", variations |-> <<"amazon">>],
               [skill |-> "react", variations |-> <<"reactjs">>] >>

Lower(s) == CASE s = "Python" -> "python"
              [] s = "React" -> "react"
              [] s = "AWS" -> "aws"
              [] OTHER -> s

RECURSIVE add_variations(_, _, _, _)
add_variations(mappings, skill, variations, i) ==
    IF i > Len(variations) THEN mappings
    ELSE add_variations((Lower(variations[i]) :> Lower(skill)) @@ mappings,
                        skill, variations, i + 1)

RECURSIVE build_skill_mappings_from(_, _)
build_skill_mappings_from(mappings, i) ==
    IF i > Len(Taxonomy) THEN mappings
    ELSE build_skill_mappings_from(
             add_variations((Lower(Taxonomy[i].skill) :> Lower(Taxonomy[i].skill)) @@ mappings,
                            Taxonomy[i].skill, Taxonomy[i].variations, 1),
             i + 1)

skill_mappings == build_skill_mappings_from(<<>>, 1)

\* _build_skill_mappings on any taxonomy: the skills of all categories in file
\* order, a later assignment to a key replacing an earlier one
RECURSIVE build_skill_mappings_of(_, _, _)
build_skill_mappings_of(taxonomy, mappings, i) ==
    IF i > Len(taxonomy) THEN mappings
    ELSE build_skill_mappings_of(
             taxonomy,
             add_variations((Lower(taxonomy[i].skill) :> Lower(taxonomy[i].skill)) @@ mappings,
                            taxonomy[i].skill, taxonomy[i].variations, 1),
             i + 1)

\* self.skill_mappings.get(skill_lower)
normalize_skill_in(mappings, skill) ==
    IF Lower(skill) \in DOMAIN mappings THEN mappings[Lower(skill)] ELSE None

normalize_skill(skill) ==
    IF Lower(skill) \in DOMAIN skill_mappings THEN skill_mappings[Lower(skill)] ELSE None

\* The resume text as the extraction patterns see it: a set of mentions
\* <<phrase, term>>, each a sentence of its own ("no experience with python.").

\* phrases in which one of skills_section_patterns matches and captures the term:
\* "skills:", and "experience with" / "familiar with" inside the disclaimers
SectionPhrases == {"skills:", "no experience with", "not familiar with"}

\* phrases in which one of experience_patterns matches and captures the term
ExperiencePhrases == {"worked with", "never used"}

\* the entries of technical_skills that are keys of skill_mappings
technical_skills == {"python", "react", "aws"}

technical_negative_contexts ==
    {"no experience with", "not familiar with", "limited knowledge of",
     "basic understanding of", "never used", "no exposure to"}

general_negative_contexts ==
    {"no experience with", "not familiar with", "limited knowledge of"}

\* phrases matched by one of the positive or section patterns before the term
positive_contexts == {"skills:", "worked with", "never used"}

extract_skills_from_section(candidate) == {normalize_skill(candidate)} \ {None}

is_technical_skill_in_context(mentions, skill) ==
    /\ ~ \E m \in mentions : m[1] \in technical_negative_contexts /\ m[2] = skill
    /\ \E m \in mentions : m[1] \in positive_contexts /\ m[2] = skill

is_general_skill_in_context(mentions, skill) ==
    /\ ~ \E m \in mentions : m[1] \in general_negative_contexts /\ m[2] = skill
    /\ \E m \in mentions : m[1] \in positive_contexts /\ m[2] = skill

is_skill_in_context(mentions, skill) ==
    IF skill \in technical_skills
    THEN is_technical_skill_in_context(mentions, skill)
    ELSE is_general_skill_in_context(mentions, skill)

extract_skills(mentions) ==
    UNION {extract_skills_from_section(m[2]) : m \in {x \in mentions : x[1] \in SectionPhrases}}
    \cup UNION {extract_skills_from_section(m[2]) :
                   m \in {x \in mentions : x[1] \in ExperiencePhrases}}
    \cup {skill_mappings[v] : v \in {x \in DOMAIN skill_mappings :
                                         is_skill_in_context(mentions, x)}}

\* mutation of skill_score: job_normalized is kept on the agent and grows by the
\* same entries on every call
skill_score_accumulating(matched_skills, job_normalized) ==
    RMin(One, Rat(Cardinality(matched_skills), Len(job_normalized) * Max({ncall, 1})))

\* "score = min(1.0, len(matched_skills) / len(job_normalized))"
skill_score(matched_skills, job_normalized) ==
    RMin(One, Rat(Cardinality(matched_skills), Len(job_normalized)))

skill_confidence(matched_skills, job_normalized) ==
    RMin(One, RAdd(Rat(Cardinality(matched_skills), Max({Len(job_normalized), 1})),
                   Rat(1, 10)))

skill_analyze(inp) ==
    LET resume_skills == extract_skills(inp.sk.mentions)
        job_skills == [i \in 1..Len(inp.sk.jskills) |-> Lower(inp.sk.jskills[i])]
        resume_normalized == {normalize_skill(s) : s \in resume_skills} \ {None}
        job_normalized == SelectSeq([i \in 1..Len(job_skills) |-> normalize_skill(job_skills[i])],
                                    LAMBDA s : s # None)
        job_set == {job_normalized[i] : i \in 1..Len(job_normalized)}
        matched_skills == resume_normalized \cap job_set
        missing_skills == job_set \ resume_normalized
    IN  IF inp.malformed = "skills"
        THEN create_result(SKILL_MATCHING, Zero, NoEvidence, Zero,
                           "Error in skill analysis")
        ELSE IF Len(job_skills) = 0
        THEN create_result(SKILL_MATCHING, Zero,
                 [resume_skills |-> resume_skills, job_skills |-> <<>>,
                  matched_skills |-> {}, missing_skills |-> {}],
                 Zero, "No skills specified in job description")
        ELSE IF Len(job_normalized) = 0
        THEN create_result(SKILL_MATCHING, Zero,
                 [resume_skills |-> resume_skills, job_skills |-> job_skills,
                  matched_skills |-> {}, missing_skills |-> {}],
                 Zero, "No valid skills found in job description after normalization")
        ELSE create_result(SKILL_MATCHING,
                 skill_score(matched_skills, job_normalized),
                 [resume_skills |-> resume_skills, job_skills |-> job_skills,
                  matched_skills |-> matched_skills, missing_skills |-> missing_skills],
                 skill_confidence(matched_skills, job_normalized),
                 None)

----------------------------------------------------------------------------
(* Experience relevance agent *)

Levels == <<"senior", "mid", "junior">>      \* order of seniority_patterns

\* the "if 0 <= years <= 50" filter on the matched figures
reasonable_years(found) == {y \in found : 0 <= y /\ y <= 50}

level_from_years(years) ==
    IF years >= 5 THEN "senior" ELSE IF years >= 2 THEN "mid" ELSE "junior"

\* first level of seniority_patterns with a pattern found in the text
extract_level(found, years) ==
    IF \E i \in 1..Len(Levels) : Levels[i] \in found
    THEN Levels[CHOOSE i \in 1..Len(Levels) :
                    /\ Levels[i] \in found
                    /\ \A j \in 1..(i - 1) : Levels[j] \notin found]
    ELSE level_from_years(years)

\* characters 0 and 1 of a four-digit match, as int(match[0]) and int(match[1])
Digit0(year) == year \div 1000
Digit1(year) == (year \div 100) % 10

\* re.findall returns a tuple for the two-group pattern and a plain string for the
\* one-group patterns (present / current / now); match[0] and match[1] of a string
\* are its first two characters
infer_years_from_jobs(closed, open) ==
    LET years_found == {r[2] - r[1] : r \in closed}
                       \cup {Digit1(y) - Digit0(y) : y \in open}
    IN  IF years_found # {} THEN Max(years_found) ELSE 0

extract_experience_indicators(ex) ==
    LET years_found == reasonable_years(ex.ryears)
        years == IF years_found # {} THEN Max(years_found)
                 ELSE infer_years_from_jobs(ex.closed, ex.open)
    IN  [years |-> years, level |-> extract_level(ex.rlevels, years)]

extract_experience_requirements(ex) ==
    LET years_found == reasonable_years(ex.jyears)
        years == IF years_found # {} THEN Max(years_found) ELSE 0
    IN  [years |-> years, level |-> extract_level(ex.jlevels, years)]

\* mutation of level_scores: a candidate above the job's level is marked down
level_scores_penalising_overqualified(resume_level, job_level) ==
    CASE resume_level = job_level -> One
      [] resume_level = "junior" /\ job_level = "mid" -> Rat(5, 10)
      [] resume_level = "junior" /\ job_level = "senior" -> Rat(2, 10)
      [] resume_level = "mid" /\ job_level = "senior" -> Rat(6, 10)
      [] OTHER -> Rat(8, 10)

level_scores(resume_level, job_level) ==
    CASE resume_level = "junior" /\ job_level = "mid" -> Rat(5, 10)
      [] resume_level = "junior" /\ job_level = "senior" -> Rat(2, 10)
      [] resume_level = "mid" /\ job_level = "senior" -> Rat(6, 10)
      [] OTHER -> One

clear_indicator_confidence(resume_value, job_value) ==
    IF resume_value = 0 /\ job_value = 0 THEN Rat(3, 10)
    ELSE IF resume_value = 0 \/ job_value = 0 THEN Rat(6, 10)
    ELSE One

\* lines 213-219
years_score(resume_years, job_years) ==
    IF job_years = 0 THEN One
    ELSE IF resume_years >= job_years THEN One
    ELSE Rat(resume_years, job_years)

calculate_experience_score(resume_exp, job_exp) ==
    LET level_score == level_scores(resume_exp.level, job_exp.level)
        total == RAdd(RMul(years_score(resume_exp.years, job_exp.years), Rat(7, 10)),
                      RMul(level_score, Rat(3, 10)))
    IN  [score |-> RMin(One, total),
         confidence |-> clear_indicator_confidence(resume_exp.years, job_exp.years)]

experience_analyze(inp) ==
    LET resume_experience == extract_experience_indicators(inp.ex)
        job_experience == extract_experience_requirements(inp.ex)
        r == calculate_experience_score(resume_experience, job_experience)
    IN  IF inp.malformed = "requirements"
        THEN create_result(EXPERIENCE_RELEVANCE, Zero, NoEvidence, Zero,
                           "Error in experience analysis")
        ELSE create_result(EXPERIENCE_RELEVANCE, r.score,
                 [resume_experience |-> resume_experience,
                  job_experience |-> job_experience,
                  years_match |-> resume_experience.years >= job_experience.years,
                  experience_gap |-> Max({0, job_experience.years - resume_experience.years})],
                 r.confidence, None)

----------------------------------------------------------------------------
(* Education alignment agent *)

DegreeClasses == <<"phd", "masters", "bachelors", "associate", "high school">>

\* self.degree_levels.get(level, 0) for the keys of degree_patterns: the table has
\* 'phd', 'masters', 'associate' and 'high school' but no key 'bachelors'
degree_levels_get(level) ==
    CASE level = "phd" -> 4
      [] level = "masters" -> 3
      [] level = "bachelor" -> 2
      [] level = "associate" -> 1
      [] level = "high school" -> 0
      [] OTHER -> 0

first_degree_class(found) ==
    DegreeClasses[CHOOSE i \in 1..Len(DegreeClasses) :
                      /\ DegreeClasses[i] \in found
                      /\ \A j \in 1..(i - 1) : DegreeClasses[j] \notin found]

extract_education(ed) ==
    IF ed.rdegrees # {}
    THEN [degree_level |-> first_degree_class(ed.rdegrees),
          level |-> degree_levels_get(first_degree_class(ed.rdegrees)),
          field |-> ed.rfield]
    ELSE [degree_level |-> "bachelor", level |-> 2, field |-> ed.rfield]

\* mutation of extract_education_requirements: a job that names no degree is taken
\* to ask for a bachelor's degree
extract_education_requirements_default_bachelor(ed) ==
    LET found == ed.jdegrees \cup (IF ed.jgeneric THEN {"bachelors"} ELSE {})
    IN  IF found # {}
        THEN [degree_level |-> first_degree_class(found),
              level |-> degree_levels_get(first_degree_class(found)),
              field |-> ed.jfield]
        ELSE [degree_level |-> "bachelor", level |-> 2, field |-> ed.jfield]

\* r'degree' is one of the 'bachelors' patterns of the job side
extract_education_requirements(ed) ==
    LET found == ed.jdegrees \cup (IF ed.jgeneric THEN {"bachelors"} ELSE {})
    IN  IF found # {}
        THEN [degree_level |-> first_degree_class(found),
              level |-> degree_levels_get(first_degree_class(found)),
              field |-> ed.jfield]
        ELSE IF ed.jgeneric
        THEN [degree_level |-> "bachelor", level |-> 2, field |-> ed.jfield]
        ELSE [degree_level |-> "high school", level |-> 0, field |-> ed.jfield]

\* the categories of field_mappings that list one of the model's fields
field_mappings ==
    << {"business", "business administration", "mba", "management", "marketing",
        "finance", "economics"},
       {"marketing", "business", "communications", "advertising", "public relations"},
       {"finance", "accounting", "economics", "business", "financial engineering"} >>

Fields == {"general", "business", "marketing", "physics", "businesses"}

\* Python's "entry in field" (substring) on the strings of Fields and field_mappings
Contains(field, entry) == entry = field \/ (field = "businesses" /\ entry = "business")

RECURSIVE related_field_score(_, _, _)
related_field_score(resume_field, job_field, i) ==
    IF i > Len(field_mappings) THEN Rat(2, 10)
    ELSE LET related == field_mappings[i]
         IN  IF resume_field \in related /\ job_field \in related THEN Rat(8, 10)
             ELSE IF /\ (resume_field \in related \/ job_field \in related)
                     /\ \E f \in related : Contains(resume_field, f)
                     /\ \E f \in related : Contains(job_field, f)
             THEN Rat(6, 10)
             ELSE related_field_score(resume_field, job_field, i + 1)

\* fields are single words, so the word sets overlap only when the fields are equal
calculate_field_score(resume_field, job_field) ==
    IF resume_field = "general" \/ job_field = "general" THEN Rat(5, 10)
    ELSE IF resume_field = job_field THEN One
    ELSE related_field_score(resume_field, job_field, 1)

\* lines 217-223
level_score(resume_level, job_level) ==
    IF job_level = 0 THEN One
    ELSE IF resume_level >= job_level THEN One
    ELSE Rat(resume_level, Max({job_level, 1}))

calculate_education_score(resume_edu, job_edu) ==
    LET field_score == calculate_field_score(resume_edu.field, job_edu.field)
        total == RAdd(RMul(level_score(resume_edu.level, job_edu.level), Rat(7, 10)),
                      RMul(field_score, Rat(3, 10)))
    IN  [score |-> RMin(One, total),
         confidence |-> clear_indicator_confidence(resume_edu.level, job_edu.level)]

education_analyze(inp) ==
    LET resume_education == extract_education(inp.ed)
        job_education == extract_education_requirements(inp.ed)
        r == calculate_education_score(resume_education, job_education)
    IN  IF inp.malformed = "requirements"
        THEN create_result(EDUCATION_ALIGNMENT, Zero, NoEvidence, Zero,
                           "Error in education analysis")
        ELSE create_result(EDUCATION_ALIGNMENT, r.score,
                 [resume_education |-> resume_education,
                  job_education |-> job_education,
                  degree_level_match |-> resume_education.level >= job_education.level,
                  education_gap |-> Max({0, job_education.level - resume_education.level})],
                 r.confidence, None)

----------------------------------------------------------------------------
(* Semantic similarity agent.  An embedding is [some, v, nonfinite]: some is  *)
(* FALSE when _generate_embedding returns None, v holds the components in  *)
(* units of 1/100 and nonfinite the positions holding NaN or an infinity.   *)

NoEmbedding == [some |-> FALSE, v |-> <<>>, nonfinite |-> {}]
Embedding(v) == [some |-> TRUE, v |-> v, nonfinite |-> {}]

SumSeq(v) ==
    LET RECURSIVE sum(_)
        sum(i) == IF i = 0 THEN 0 ELSE v[i] + sum(i - 1)
    IN  sum(Len(v))

Dot(v1, v2) == SumSeq([i \in 1..Len(v1) |-> v1[i] * v2[i]])

\* np.linalg.norm on vectors whose norm is an integer
Norm(v) ==
    LET n2 == Dot(v, v)
        top == SumSeq([i \in 1..Len(v) |-> Abs(v[i])])
    IN  CHOOSE r \in 0..top : r * r = n2

NormIsZero(v, nonfinite) ==
    /\ \A i \in 1..Len(v) : i \notin nonfinite
    /\ \A i \in 1..Len(v) : v[i] = 0

calculate_cosine_similarity(embedding1, embedding2) ==
    LET min_len == IF Len(embedding1.v) < Len(embedding2.v)
                   THEN Len(embedding1.v) ELSE Len(embedding2.v)
        vec1 == SubSeq(embedding1.v, 1, min_len)
        vec2 == SubSeq(embedding2.v, 1, min_len)
    IN  IF NormIsZero(vec1, embedding1.nonfinite) \/ NormIsZero(vec2, embedding2.nonfinite)
        THEN Zero
        ELSE IF \E i \in 1..min_len : i \in embedding1.nonfinite \cup embedding2.nonfinite
        THEN One       \* the quotient is NaN and min(1.0, NaN) is 1.0
        ELSE RMax(Rat(-1, 1), RMin(One, Rat(Dot(vec1, vec2), Norm(vec1) * Norm(vec2))))

\* np.var(v) > num/den, with the components in units of 1/100
VarianceAbove(v, num, den) ==
    LET n == Len(v)
    IN  (n * Dot(v, v) - SumSeq(v) * SumSeq(v)) * den > num * n * n * 10000

calculate_embedding_confidence(embedding1, embedding2) ==
    IF Len(embedding1.v) # Len(embedding2.v) THEN Rat(5, 10)
    ELSE IF NormIsZero(embedding1.v, embedding1.nonfinite)
            \/ NormIsZero(embedding2.v, embedding2.nonfinite) THEN Rat(1, 10)
    ELSE IF embedding1.nonfinite # {} \/ embedding2.nonfinite # {} THEN Rat(3, 10)
    ELSE IF VarianceAbove(embedding1.v, 1, 100) /\ VarianceAbove(embedding2.v, 1, 100)
    THEN One
    ELSE IF VarianceAbove(embedding1.v, 1, 1000) /\ VarianceAbove(embedding2.v, 1, 1000)
    THEN Rat(8, 10)
    ELSE Rat(6, 10)

\* "len(text.strip()) < 10" of _generate_embedding
MinTextLength == 10

\* A text is [stripped, nonblank]: the length of text.strip() and the number of
\* its characters that are not blank.  provided is what the embedding function of
\* the provider gives for it (NoEmbedding: it gives None or raises).
generate_embedding(text, provided) ==
    IF text.stripped < MinTextLength THEN NoEmbedding ELSE provided

\* mutation of semantic_analyze: without an embedding the agent answers with a
\* neutral score and no error
semantic_analyze_neutral_default(inp) ==
    LET resume_embedding == generate_embedding(inp.se.rtext, inp.se.remb)
        job_embedding == generate_embedding(inp.se.jtext, inp.se.jemb)
        similarity_score == calculate_cosine_similarity(resume_embedding, job_embedding)
        normalized_score == RMax(Zero, RDiv(RAdd(similarity_score, One), Rat(2, 1)))
    IN  IF extract_job_content_raises(inp)
        THEN create_result(SEMANTIC_SIMILARITY, Zero, NoEvidence, Zero,
                           "Error in semantic analysis")
        ELSE IF ~resume_embedding.some \/ ~job_embedding.some
        THEN create_result(SEMANTIC_SIMILARITY, Rat(1, 2),
                 [resume_embedding_generated |-> resume_embedding.some,
                  job_embedding_generated |-> job_embedding.some,
                  similarity_score |-> Zero],
                 Rat(1, 10), None)
        ELSE create_result(SEMANTIC_SIMILARITY, normalized_score,
                 [resume_embedding_generated |-> TRUE,
                  job_embedding_generated |-> TRUE,
                  similarity_score |-> similarity_score],
                 calculate_embedding_confidence(resume_embedding, job_embedding),
                 None)

semantic_analyze(inp) ==
    LET resume_embedding == generate_embedding(inp.se.rtext, inp.se.remb)
        job_embedding == generate_embedding(inp.se.jtext, inp.se.jemb)
        similarity_score == calculate_cosine_similarity(resume_embedding, job_embedding)
        normalized_score == RMax(Zero, RDiv(RAdd(similarity_score, One), Rat(2, 1)))
    IN  IF extract_job_content_raises(inp)
        THEN create_result(SEMANTIC_SIMILARITY, Zero, NoEvidence, Zero,
                           "Error in semantic analysis")
        ELSE IF ~resume_embedding.some \/ ~job_embedding.some
        THEN create_result(SEMANTIC_SIMILARITY, Zero,
                 [resume_embedding_generated |-> resume_embedding.some,
                  job_embedding_generated |-> job_embedding.some,
                  similarity_score |-> Zero],
                 Zero, "Failed to generate embeddings")
        ELSE create_result(SEMANTIC_SIMILARITY, normalized_score,
                 [resume_embedding_generated |-> TRUE,
                  job_embedding_generated |-> TRUE,
                  similarity_score |-> similarity_score],
                 calculate_embedding_confidence(resume_embedding, job_embedding),
                 None)

\* agent.analyze(resume, job) of the agent registered under a
analyze(a, inp) ==
    CASE a = KEYWORD_MATCHING -> keyword_analyze(inp)
      [] a = SKILL_MATCHING -> skill_analyze(inp)
      [] a = EXPERIENCE_RELEVANCE -> experience_analyze(inp)
      [] a = EDUCATION_ALIGNMENT -> education_analyze(inp)
      [] a = SEMANTIC_SIMILARITY -> semantic_analyze(inp)

----------------------------------------------------------------------------
(* Inputs.  Each part holds what one agent extracts from the two texts.    *)

SeqsUpTo(S, n) == UNION {[1..k -> S] : k \in 0..n}

KwParts ==
    {p \in [rk : SUBSET Vocab, rwords : 0..MaxWords, jk : SUBSET Vocab, jwords : 0..MaxWords] :
        /\ p.rk # {} => p.rwords >= 1
        /\ p.jk # {} => p.jwords >= 1}

JobSkillStrings == {"Python", "py", "aws", "cobol"}

\* mentions the resume text is made of
Mentions ==
    ({"skills:", "worked with", "no experience with", "never used", "mention"}
        \X {"python", "py"})
    \cup {<<"skills:", "aws">>}

\* declared: the profile's own skill list, resume.get('skills')
SkParts == [declared : {<<>>, <<"Python", "React">>},
            mentions : {m \in SUBSET Mentions : Cardinality(m) <= MaxMentions},
            jskills : SeqsUpTo(JobSkillStrings, MaxJobSkills)]

ExParts ==
    [ryears : {{}, {3}, {5}, {8}, {3, 8}, {60}},
     closed : SUBSET {<<2019, 2021>>, <<2023, 2020>>},
     open : {{}, {1998}, {2020}},
     rlevels : {{}, {"mid"}, {"senior"}, {"senior", "junior"}},
     jyears : {{}, {3}, {5}, {2, 5}},
     jlevels : {{}, {"senior"}, {"mid"}}]

EdParts ==
    [rdegrees : {{}, {"bachelors"}, {"masters"}, {"phd", "associate"}, {"associate"},
                 {"high school"}},
     rfield : Fields,
     jdegrees : {{}, {"masters"}, {"phd"}, {"associate"}},
     jgeneric : BOOLEAN,
     jfield : Fields]

Embeddings ==
    {NoEmbedding, Embedding(<<>>), Embedding(<<0, 0>>), Embedding(<<300, 400>>),
     Embedding(<<400, 300>>), Embedding(<<-300, -400>>), Embedding(<<30, 40>>),
     Embedding(<<5>>), Embedding(<<300, 400, 0>>),
     [some |-> TRUE, v |-> <<300, 400>>, nonfinite |-> {2}]}

\* lengths of the assembled texts, on both sides of the length test
Texts == {[stripped |-> 0, nonblank |-> 0], [stripped |-> 9, nonblank |-> 9],
          [stripped |-> 11, nonblank |-> 9], [stripped |-> 12, nonblank |-> 10]}

LongText == [stripped |-> 12, nonblank |-> 10]

SeParts == [rtext : Texts, remb : Embeddings, jtext : Texts, jemb : Embeddings]

DefaultKw == [rk |-> {"python"}, rwords |-> MaxWords, jk |-> Vocab, jwords |-> MaxWords]
DefaultSk == [declared |-> <<>>, mentions |-> {<<"skills:", "python">>},
              jskills |-> <<"Python", "aws">>]
DefaultEx == [ryears |-> {8}, closed |-> {}, open |-> {}, rlevels |-> {},
              jyears |-> {5}, jlevels |-> {}]
DefaultEd == [rdegrees |-> {}, rfield |-> "general", jdegrees |-> {},
              jgeneric |-> FALSE, jfield |-> "general"]
DefaultSe == [rtext |-> LongText, remb |-> Embedding(<<300, 400>>),
              jtext |-> LongText, jemb |-> Embedding(<<400, 300>>)]

DefaultInput == [kw |-> DefaultKw, sk |-> DefaultSk, ex |-> DefaultEx, ed |-> DefaultEd,
                 se |-> DefaultSe, malformed |-> "none"]

\* the pairs the coordinator is run on
Inputs ==
    [kw : {DefaultKw, [rk |-> {}, rwords |-> 1, jk |-> {}, jwords |-> 1]},
     sk : {DefaultSk,
           [declared |-> <<"Python", "React">>,
            mentions |-> {<<"worked with", "python">>, <<"skills:", "aws">>},
            jskills |-> <<"py">>],
           [DefaultSk EXCEPT !.jskills = <<>>]},
     ex : {DefaultEx,
           [DefaultEx EXCEPT !.ryears = {}, !.open = {2020}],
           [DefaultEx EXCEPT !.ryears = {3}, !.jlevels = {"senior"}]},
     ed : {DefaultEd,
           [rdegrees |-> {"associate"}, rfield |-> "business", jdegrees |-> {"masters"},
            jgeneric |-> FALSE, jfield |-> "marketing"]},
     se : {DefaultSe,
           [DefaultSe EXCEPT !.jemb = NoEmbedding],
           [DefaultSe EXCEPT !.rtext = [stripped |-> 9, nonblank |-> 9]],
           [DefaultSe EXCEPT !.jtext = [stripped |-> 11, nonblank |-> 9]]},
     malformed : {"none"}]
    \cup {[DefaultInput EXCEPT !.malformed = m] : m \in {"requirements", "skills"}}
    \cup {[DefaultInput EXCEPT !.sk.jskills = <<"cobol">>]}

\* the inputs each agent is run on alone: one part ranges widely
AgentInputs ==
    {[DefaultInput EXCEPT !.kw = p] : p \in KwParts}
    \cup {[DefaultInput EXCEPT !.sk = p] : p \in SkParts}
    \cup {[DefaultInput EXCEPT !.ex = p] : p \in ExParts}
    \cup {[DefaultInput EXCEPT !.ed = p] : p \in EdParts}
    \cup {[DefaultInput EXCEPT !.se = p] : p \in SeParts}
    \cup {[DefaultInput EXCEPT !.malformed = m] : m \in {"requirements", "skills"}}

\* weight configurations the constructor is tried on, around the configured one
WeightConfigs ==
    {[a \in AgentType |-> RAdd(ConfiguredWeights[a], Rat(d[a] * DeltaW, 10000))] :
        d \in [AgentType -> {-1, 0, 1}]}

----------------------------------------------------------------------------
(* MultiAgentScoringCoordinator *)

Tolerance == Rat(1, 1000)

SumWeights(w) ==
    LET RECURSIVE sum(_)
        sum(i) == IF i = 0 THEN Zero ELSE RAdd(sum(i - 1), w[AgentOrder[i]])
    IN  sum(Len(AgentOrder))

\* mutation of weights_rejected: the abs() is missing
weights_rejected_above_only(w) == RLt(Tolerance, RSub(SumWeights(w), One))

\* "if abs(total_weight - 1.0) > 0.001: raise ValueError"
weights_rejected(w) == RLt(Tolerance, RAbs(RSub(SumWeights(w), One)))

Construct ==
    /\ coordinator = "constructing"
    /\ coordinator' = IF weights_rejected(weight) THEN "ValueError" ELSE "ready"
    /\ UNCHANGED <<weight, pc, input, forced, task, taskResult, agent_results, idx,
                   total_score, total_confidence, breakdown, prev, ncall>>

NoTasks == [a \in AgentType |-> "none"]

\* entering score_resume(resume, job)
Enter(inp, f, n, p) ==
    /\ coordinator = "ready"
    /\ pc' = "dispatching"
    /\ input' = inp
    /\ forced' = f
    /\ task' = NoTasks
    /\ taskResult' = <<>>
    /\ agent_results' = <<>>
    /\ idx' = 0
    /\ total_score' = Zero
    /\ total_confidence' = Zero
    /\ breakdown' = <<>>
    /\ prev' = p
    /\ ncall' = n
    /\ UNCHANGED <<weight, coordinator>>

Call ==
    /\ pc = "idle"
    /\ \E inp \in Inputs, f \in SUBSET AgentType : Enter(inp, f, 1, <<>>)

\* the next call on the same (resume, job), with the same stubs
CallAgain ==
    /\ pc = "returned"
    /\ ncall < MaxCalls
    /\ Enter(input, forced, ncall + 1, breakdown)

\* lines 72-78: one task per agent, then an empty result dict
Dispatch ==
    /\ pc = "dispatching"
    /\ task' = [a \in AgentType |-> "pending"]
    /\ agent_results' = <<>>
    /\ idx' = 1
    /\ pc' = "collecting"
    /\ UNCHANGED <<weight, coordinator, input, forced, taskResult, total_score,
                   total_confidence, breakdown, prev, ncall>>

\* mutation of TaskReturn: the agent writes to itself while it analyses (it
\* halves its own weight), a state its later runs and the other calls read
TaskReturn_writing_weight(a) ==
    /\ pc = "collecting"
    /\ task[a] = "pending"
    /\ a \notin forced
    /\ task' = [task EXCEPT ![a] = "returned"]
    /\ taskResult' = (a :> analyze(a, input)) @@ taskResult
    /\ weight' = [weight EXCEPT ![a] = RMul(@, Rat(1, 2))]
    /\ UNCHANGED <<coordinator, pc, input, forced, agent_results, idx,
                   total_score, total_confidence, breakdown, prev, ncall>>

\* the event loop runs the task of agent a to its end
TaskReturn(a) ==
    /\ pc = "collecting"
    /\ task[a] = "pending"
    /\ a \notin forced
    /\ task' = [task EXCEPT ![a] = "returned"]
    /\ taskResult' = (a :> analyze(a, input)) @@ taskResult
    /\ UNCHANGED <<weight, coordinator, pc, input, forced, agent_results, idx,
                   total_score, total_confidence, breakdown, prev, ncall>>

TaskRaise(a) ==
    /\ pc = "collecting"
    /\ task[a] = "pending"
    /\ a \in forced
    /\ task' = [task EXCEPT ![a] = "raised"]
    /\ UNCHANGED <<weight, coordinator, pc, input, forced, taskResult, agent_results,
                   idx, total_score, total_confidence, breakdown, prev, ncall>>

\* mutation of error_result: the weight is not the agent's
error_result_zero_weight(a) ==
    [agent_type |-> a, score |-> Zero, percentage |-> Zero, weight |-> Zero,
     evidence |-> NoEvidence, confidence |-> Zero, error |-> "Agent failed: forced"]

\* lines 85-93: the result that stands for an agent whose task raised
error_result(a) ==
    [agent_type |-> a, score |-> Zero, percentage |-> Zero, weight |-> weight[a],
     evidence |-> NoEvidence, confidence |-> Zero, error |-> "Agent failed: forced"]

\* mutation of await_ready: the loop does not wait for the task
await_ready_unfinished(a) == TRUE

\* mutation of await_ready: the loop resumes only on a task that returned
await_ready_only_returned(a) == task[a] = "returned"

\* "await task" resumes once the task has finished

await_ready(a) == task[a] \in {"returned", "raised"}

\* the dict after "agent_results[agent_type.value] = ..."
store_result(results, a, r) == (a :> r) @@ results

\* mutation of Await: a task that raised is created again instead of being
\* replaced by the error result
Await_retrying ==
    /\ pc = "collecting"
    /\ idx <= Len(AgentOrder)
    /\ LET a == AgentOrder[idx]
       IN  /\ await_ready(a)
           /\ IF task[a] = "raised"
              THEN /\ task' = [task EXCEPT ![a] = "pending"]
                   /\ forced' = forced \ {a}
                   /\ UNCHANGED <<agent_results, idx>>
              ELSE /\ agent_results' = store_result(agent_results, a, taskResult[a])
                   /\ idx' = idx + 1
                   /\ UNCHANGED <<task, forced>>
    /\ UNCHANGED <<weight, coordinator, pc, input, taskResult,
                   total_score, total_confidence, breakdown, prev, ncall>>

\* lines 79-93: one turn of the await loop
Await ==
    /\ pc = "collecting"
    /\ idx <= Len(AgentOrder)
    /\ LET a == AgentOrder[idx]
       IN  /\ await_ready(a)
           /\ agent_results' =
                  store_result(agent_results, a,
                      IF task[a] = "returned" THEN taskResult[a] ELSE error_result(a))
    /\ idx' = idx + 1
    /\ UNCHANGED <<weight, coordinator, pc, input, forced, task, taskResult,
                   total_score, total_confidence, breakdown, prev, ncall>>

\* mutation of ValidOrder: only the results the coordinator made for a task that
\* raised are left out; an error an agent reports itself is not looked at
ValidOrder_leaving_out_crashes_only(results) ==
    SelectSeq(AgentOrder,
              LAMBDA a : a \in DOMAIN results /\ results[a].error # "Agent failed: forced")

\* agents in dict order whose result is present and carries no error
ValidOrder(results) ==
    SelectSeq(AgentOrder, LAMBDA a : a \in DOMAIN results /\ results[a].error = None)

\* mutation of accumulate: "+= result.score" without the weight
accumulate_unweighted(results, field) ==
    LET order == ValidOrder(results)
        RECURSIVE acc(_)
        acc(i) == IF i = 0 THEN Zero ELSE RAdd(acc(i - 1), results[order[i]][field])
    IN  acc(Len(order))

\* lines 100-104: an accumulator after the loop over agent_results

accumulate(results, field) ==
    LET order == ValidOrder(results)
        RECURSIVE acc(_)
        acc(i) == IF i = 0 THEN Zero
                  ELSE RAdd(acc(i - 1), RMul(results[order[i]][field], results[order[i]].weight))
    IN  acc(Len(order))

\* mutation of normalize_confidence: divided by the weight of all agents
normalize_confidence_by_all(results, confidence) ==
    IF Len(ValidOrder(results)) > 0 THEN RDiv(confidence, SumWeights(weight)) ELSE Zero

\* lines 107-110
normalize_confidence(results, confidence) ==
    LET order == ValidOrder(results)
        RECURSIVE sum(_)
        sum(i) == IF i = 0 THEN Zero ELSE RAdd(sum(i - 1), results[order[i]].weight)
    IN  IF Len(order) > 0 THEN RDiv(confidence, sum(Len(order))) ELSE Zero

\* lines 95-110
Aggregate ==
    /\ pc = "collecting"
    /\ idx > Len(AgentOrder)
    /\ total_score' = accumulate(agent_results, "score")
    /\ total_confidence' =
           normalize_confidence(agent_results, accumulate(agent_results, "confidence"))
    /\ pc' = "aggregating"
    /\ UNCHANGED <<weight, coordinator, input, forced, task, taskResult, agent_results,
                   idx, breakdown, prev, ncall>>

\* int(x) of a non-negative rational
int(r) == r.num \div r.den

\* mutation of format_agent_result: the error is left out of the sub-object
format_agent_result_without_error(results, a) ==
    IF a \notin DOMAIN results
    THEN [score |-> Zero, percentage |-> Zero, weight |-> 0, confidence |-> Zero,
          evidence |-> NoEvidence, error |-> "Agent not available"]
    ELSE [score |-> results[a].score,
          percentage |-> results[a].percentage,
          weight |-> int(RMul(results[a].weight, Hundred)),
          confidence |-> results[a].confidence,
          evidence |-> results[a].evidence,
          error |-> None]

\* _format_agent_result
format_agent_result(results, a) ==
    IF a \notin DOMAIN results
    THEN [score |-> Zero, percentage |-> Zero, weight |-> 0, confidence |-> Zero,
          evidence |-> NoEvidence, error |-> "Agent not available"]
    ELSE [score |-> results[a].score,
          percentage |-> results[a].percentage,
          weight |-> int(RMul(results[a].weight, Hundred)),
          confidence |-> results[a].confidence,
          evidence |-> results[a].evidence,
          error |-> results[a].error]

\* mutation of skills_from: when the skill agent has no list to give, the keyword
\* agent's matched / missing keywords are used instead
skills_from_with_keyword_fallback(results, key) ==
    IF SKILL_MATCHING \in DOMAIN results /\ results[SKILL_MATCHING].error = None
    THEN results[SKILL_MATCHING].evidence[key]
    ELSE IF KEYWORD_MATCHING \in DOMAIN results /\ results[KEYWORD_MATCHING].error = None
    THEN results[KEYWORD_MATCHING].evidence[
             IF key = "matched_skills" THEN "matched_keywords" ELSE "missing_keywords"]
    ELSE {}

\* lines 113-120: the two skill lists
skills_from(results, key) ==
    IF SKILL_MATCHING \in DOMAIN results /\ results[SKILL_MATCHING].error = None
    THEN results[SKILL_MATCHING].evidence[key]
    ELSE {}

\* lines 112-138
Return ==
    /\ pc = "aggregating"
    /\ breakdown' =
           << [keyword_match |-> format_agent_result(agent_results, KEYWORD_MATCHING),
               skills_alignment |-> format_agent_result(agent_results, SKILL_MATCHING),
               experience_relevance |-> format_agent_result(agent_results, EXPERIENCE_RELEVANCE),
               education_alignment |-> format_agent_result(agent_results, EDUCATION_ALIGNMENT),
               semantic_similarity |-> format_agent_result(agent_results, SEMANTIC_SIMILARITY),
               total_score |-> total_score,
               match_percentage |-> RMul(total_score, Hundred),
               skills_match |-> skills_from(agent_results, "matched_skills"),
               missing_skills |-> skills_from(agent_results, "missing_skills"),
               agent_results |-> agent_results,
               confidence |-> total_confidence,
               timestamp |-> ncall] >>
    /\ pc' = "returned"
    /\ UNCHANGED <<weight, coordinator, input, forced, task, taskResult, agent_results,
                   idx, total_score, total_confidence, prev, ncall>>

\* the breakdown is with the caller and the call's frame is gone
Leave ==
    /\ pc = "returned"
    /\ pc' = "idle"
    /\ input' = DefaultInput
    /\ forced' = {}
    /\ task' = NoTasks
    /\ taskResult' = <<>>
    /\ agent_results' = <<>>
    /\ idx' = 0
    /\ total_score' = Zero
    /\ total_confidence' = Zero
    /\ breakdown' = <<>>
    /\ prev' = <<>>
    /\ ncall' = 0
    /\ UNCHANGED <<weight, coordinator>>

Rest ==
    /\ pc = "idle"
    /\ input = DefaultInput
    /\ forced = {}
    /\ task = NoTasks
    /\ taskResult = <<>>
    /\ agent_results = <<>>
    /\ idx = 0
    /\ total_score = Zero
    /\ total_confidence = Zero
    /\ breakdown = <<>>
    /\ prev = <<>>
    /\ ncall = 0

\* the module-level "coordinator = MultiAgentScoringCoordinator()"
Init ==
    /\ weight = ConfiguredWeights
    /\ coordinator = "constructing"
    /\ Rest

Next ==
    \/ Construct
    \/ Call
    \/ CallAgain
    \/ Dispatch
    \/ \E a \in AgentType : TaskReturn(a)
    \/ \E a \in AgentType : TaskRaise(a)
    \/ Await
    \/ Aggregate
    \/ Return
    \/ Leave

Spec == Init /\ [][Next]_vars

----------------------------------------------------------------------------
(* Calls on a constructed coordinator, with the scheduling of the event loop: *)
(* a coroutine that can take its next step is run, and every task finishes,   *)
(* with a result or by raising.                                               *)

ProgressInputs == {DefaultInput, [DefaultInput EXCEPT !.malformed = "requirements"]}

InitProgress ==
    /\ weight = ConfiguredWeights
    /\ coordinator = "ready"
    /\ Rest

CallProgress ==
    /\ pc = "idle"
    /\ \E inp \in ProgressInputs, f \in SUBSET AgentType : Enter(inp, f, 1, <<>>)

NextProgress ==
    \/ CallProgress
    \/ CallAgain
    \/ Dispatch
    \/ \E a \in AgentType : TaskReturn(a)
    \/ \E a \in AgentType : TaskRaise(a)
    \/ Await
    \/ Aggregate
    \/ Return
    \/ Leave

\* what TaskReturn(a) and TaskRaise(a) do to the task: it finishes or raises
TaskFinishes(a) ==
    /\ pc = "collecting"
    /\ task[a] = "pending"
    /\ task' = [task EXCEPT ![a] = IF a \in forced THEN "raised" ELSE "returned"]

\* what Aggregate does to the position of the call, once the await loop is over
LoopOver ==
    /\ pc = "collecting"
    /\ idx > Len(AgentOrder)
    /\ pc' = "aggregating"

SpecProgress ==
    /\ InitProgress
    /\ [][NextProgress]_vars
    /\ WF_vars(Dispatch)
    /\ \A a \in AgentType : WF_task(TaskFinishes(a))
    /\ WF_vars(Await)
    /\ WF_pc(LoopOver)
    /\ WF_vars(Return)

----------------------------------------------------------------------------
(* Two score_resume calls in flight on the one coordinator.  The variables    *)
(* of a call hold the frame of the coroutine the event loop is running; prev  *)
(* holds the frame of the other, suspended one; weight and coordinator are    *)
(* the coordinator object both calls read.                                    *)

ConcurrentInputs ==
    {DefaultInput,
     [DefaultInput EXCEPT !.kw = [rk |-> {}, rwords |-> 1, jk |-> {}, jwords |-> 1],
                          !.ex = [DefaultEx EXCEPT !.ryears = {3}, !.jlevels = {"senior"}]]}

ConcurrentForced == {{}, {SKILL_MATCHING}}

\* the local variables of the running call
Frame ==
    [pc |-> pc, input |-> input, forced |-> forced, task |-> task,
     taskResult |-> taskResult, agent_results |-> agent_results, idx |-> idx,
     total_score |-> total_score, total_confidence |-> total_confidence,
     breakdown |-> breakdown, ncall |-> ncall]

\* the frame of a call that has just been entered
EnteredFrame(inp, f, n) ==
    [pc |-> "dispatching", input |-> inp, forced |-> f, task |-> NoTasks,
     taskResult |-> <<>>, agent_results |-> <<>>, idx |-> 0,
     total_score |-> Zero, total_confidence |-> Zero,
     breakdown |-> <<>>, ncall |-> n]

InitConcurrent ==
    /\ weight = ConfiguredWeights
    /\ coordinator = "ready"
    /\ Rest

\* two requests arrive: both coroutines are created, the first one runs
CallBoth ==
    /\ pc = "idle"
    /\ \E inp1 \in ConcurrentInputs, inp2 \in ConcurrentInputs,
          f1 \in ConcurrentForced, f2 \in ConcurrentForced :
            Enter(inp1, f1, 1, <<EnteredFrame(inp2, f2, 2)>>)

\* the event loop suspends the running call and resumes the other one
Switch ==
    /\ pc # "idle"
    /\ Len(prev) = 1
    /\ pc' = prev[1].pc
    /\ input' = prev[1].input
    /\ forced' = prev[1].forced
    /\ task' = prev[1].task
    /\ taskResult' = prev[1].taskResult
    /\ agent_results' = prev[1].agent_results
    /\ idx' = prev[1].idx
    /\ total_score' = prev[1].total_score
    /\ total_confidence' = prev[1].total_confidence
    /\ breakdown' = prev[1].breakdown
    /\ ncall' = prev[1].ncall
    /\ prev' = <<Frame>>
    /\ UNCHANGED <<weight, coordinator>>

NextConcurrent ==
    \/ CallBoth
    \/ Switch
    \/ Dispatch
    \/ \E a \in AgentType : TaskReturn(a)
    \/ \E a \in AgentType : TaskRaise(a)
    \/ Await
    \/ Aggregate
    \/ Return

SpecConcurrent == InitConcurrent /\ [][NextConcurrent]_vars

----------------------------------------------------------------------------
(* The constructor alone, on weight configurations around the configured one *)

InitCtor ==
    /\ weight \in WeightConfigs
    /\ coordinator = "constructing"
    /\ Rest

NextCtor ==
    \/ Construct
    \/ Call

SpecCtor == InitCtor /\ [][NextCtor]_vars

----------------------------------------------------------------------------
(* Each agent's analyze alone, on a wide range of inputs *)

InitAgents ==
    /\ weight = ConfiguredWeights
    /\ coordinator = "ready"
    /\ pc = "analyze"
    /\ input \in AgentInputs
    /\ forced = {}
    /\ task = NoTasks
    /\ taskResult = <<>>
    /\ agent_results = <<>>
    /\ idx = 0
    /\ total_score = Zero
    /\ total_confidence = Zero
    /\ breakdown = <<>>
    /\ prev = <<>>
    /\ ncall = 0

Analyze(a) ==
    /\ pc = "analyze"
    /\ task' = [task EXCEPT ![a] = "returned"]
    /\ taskResult' = (a :> analyze(a, input)) @@ taskResult
    /\ pc' = "analyzed"
    /\ UNCHANGED <<weight, coordinator, input, forced, agent_results, idx,
                   total_score, total_confidence, breakdown, prev, ncall>>

NextAgents == \E a \in AgentType : Analyze(a)

SpecAgents == InitAgents /\ [][NextAgents]_vars

----------------------------------------------------------------------------
(* The skill agent's constructor on any taxonomy file, and one normalization. *)
(* input holds the taxonomy read from the file, taskResult the mappings built *)
(* from it, breakdown the string normalized and what it was normalized to.    *)

TaxonomyNames == {"react", "reactjs", "javascript"}

Taxonomies ==
    SeqsUpTo([skill : TaxonomyNames, variations : SeqsUpTo(TaxonomyNames, MaxVariations)],
             MaxSkills)

InitTaxonomy ==
    /\ weight = ConfiguredWeights
    /\ coordinator = "constructing"
    /\ pc = "loaded"
    /\ input \in [taxonomy : Taxonomies]
    /\ forced = {}
    /\ task = NoTasks
    /\ taskResult = <<>>
    /\ agent_results = <<>>
    /\ idx = 0
    /\ total_score = Zero
    /\ total_confidence = Zero
    /\ breakdown = <<>>
    /\ prev = <<>>
    /\ ncall = 0

\* self.skill_mappings = self._build_skill_mappings()
BuildMappings ==
    /\ pc = "loaded"
    /\ taskResult' = build_skill_mappings_of(input.taxonomy, <<>>, 1)
    /\ pc' = "built"
    /\ UNCHANGED <<weight, coordinator, input, forced, task, agent_results, idx,
                   total_score, total_confidence, breakdown, prev, ncall>>

\* self._normalize_skill(skill)
NormalizeSkill(skill) ==
    /\ pc = "built"
    /\ breakdown' = <<[skill |-> skill,
                       normalized |-> normalize_skill_in(taskResult, skill)]>>
    /\ pc' = "normalized"
    /\ UNCHANGED <<weight, coordinator, input, forced, task, taskResult, agent_results,
                   idx, total_score, total_confidence, prev, ncall>>

NextTaxonomy ==
    \/ BuildMappings
    \/ \E skill \in TaxonomyNames : NormalizeSkill(skill)

SpecTaxonomy == InitTaxonomy /\ [][NextTaxonomy]_vars

----------------------------------------------------------------------------
(* Properties *)

RECURSIVE SumOver(_, _)
SumOver(S, val) ==
    IF S = {} THEN Zero
    ELSE LET a == CHOOSE x \in S : TRUE
         IN  RAdd(val[a], SumOver(S \ {a}, val))

\* agents whose collected result carries no error
Succeeded == {a \in DOMAIN agent_results : agent_results[a].error = None}

AllCollected == DOMAIN agent_results = AgentType

SubObjects(b) ==
    [a \in AgentType |->
        CASE a = KEYWORD_MATCHING -> b.keyword_match
          [] a = SKILL_MATCHING -> b.skills_alignment
          [] a = EXPERIENCE_RELEVANCE -> b.experience_relevance
          [] a = EDUCATION_ALIGNMENT -> b.education_alignment
          [] a = SEMANTIC_SIMILARITY -> b.semantic_similarity]

\* the await loop is not blocked: it is past the last task, or the task it waits
\* for has finished, or some task has yet to run
LoopCanGoOn ==
    \/ idx > Len(AgentOrder)
    \/ await_ready(AgentOrder[idx])
    \/ \E a \in AgentType : task[a] = "pending"

\* C1: whatever subset of the five tasks raises, each raising task is replaced by
\* a result with score 0, percentage 0, confidence 0, empty evidence, a non-empty
\* error message and the agent's configured weight; the results of the other tasks
\* are kept as returned; a raised task does not block the await loop; and the call
\* returns with all five collected.
C1_FailureIsolation ==
    /\ \A a \in DOMAIN agent_results :
          /\ task[a] = "raised" =>
                /\ agent_results[a].score = Zero
                /\ agent_results[a].percentage = Zero
                /\ agent_results[a].confidence = Zero
                /\ agent_results[a].evidence = NoEvidence
                /\ agent_results[a].error \notin {None, ""}
                /\ agent_results[a].weight = ConfiguredWeights[a]
          /\ task[a] = "returned" => agent_results[a] = taskResult[a]
    /\ (pc = "collecting" /\ idx <= Len(AgentOrder) /\ task[AgentOrder[idx]] = "raised")
           => await_ready(AgentOrder[idx])
    /\ pc = "returned" =>
          /\ AllCollected
          /\ Len(breakdown) = 1
          /\ \A a \in AgentType : (task[a] = "raised") = (a \in forced)

C1_Witness ==
    /\ pc = "returned"
    /\ forced = {KEYWORD_MATCHING, EDUCATION_ALIGNMENT}
    /\ agent_results[SKILL_MATCHING].error = None
    /\ agent_results[KEYWORD_MATCHING].weight = Rat(20, 100)

\* C2: with exactly one agent forced to fail, the other four results are those
\* analyze gives on the same input without any failure, and total_score is the sum
\* of score * weight over exactly the agents whose result has no error.
C2_AggregationUnderFailure ==
    (pc = "returned" /\ Cardinality(forced) = 1) =>
        /\ \A a \in AgentType \ forced :
              a \in DOMAIN agent_results /\ agent_results[a] = analyze(a, input)
        /\ \A a \in forced : a \notin Succeeded
        /\ breakdown[1].total_score =
               SumOver(Succeeded,
                       [a \in Succeeded |->
                           RMul(agent_results[a].score, ConfiguredWeights[a])])

C2_Witness ==
    /\ pc = "returned"
    /\ forced = {SEMANTIC_SIMILARITY}
    /\ Succeeded = AgentType \ forced
    /\ RLt(Zero, breakdown[1].total_score)

\* C3: the total score and the aggregate confidence of every call lie in [0, 1],
\* for all inputs and all combinations of agent failures.
C3_TotalsInUnitInterval ==
    /\ pc \in {"aggregating", "returned"} => InUnit(total_score) /\ InUnit(total_confidence)
    /\ pc = "returned" =>
          InUnit(breakdown[1].total_score) /\ InUnit(breakdown[1].confidence)

C3_Witness ==
    /\ pc = "returned"
    /\ forced # {}
    /\ EXPERIENCE_RELEVANCE \in Succeeded
    /\ RLt(agent_results[EXPERIENCE_RELEVANCE].percentage, Zero)
    /\ RLt(Zero, breakdown[1].total_score)

\* C4: the aggregate confidence is the sum of confidence * weight over the agents
\* without error divided by the sum of the weights of the same agents, and 0 when
\* no agent succeeded.
C4_ConfidenceRenormalized ==
    pc \in {"aggregating", "returned"} =>
        total_confidence =
            IF Succeeded = {} THEN Zero
            ELSE RDiv(SumOver(Succeeded,
                              [a \in Succeeded |->
                                  RMul(agent_results[a].confidence, ConfiguredWeights[a])]),
                      SumOver(Succeeded, [a \in Succeeded |-> ConfiguredWeights[a]]))

C4_Witness ==
    /\ pc = "returned"
    /\ Succeeded \notin {{}, AgentType}
    /\ breakdown[1].confidence #
           SumOver(Succeeded,
                   [a \in Succeeded |->
                       RMul(agent_results[a].confidence, ConfiguredWeights[a])])

\* C5: the await loop of a call is never blocked and the call ends with a breakdown; an agent's
\* sub-object carries an error exactly when that agent failed; when all five
\* results carry an error the breakdown is all zero with empty skill lists.
C5_AlwaysABreakdown ==
    /\ pc = "collecting" => LoopCanGoOn
    /\ pc = "returned" =>
          /\ Len(breakdown) = 1
          /\ \A a \in AgentType :
                (SubObjects(breakdown[1])[a].error # None)
                    = (a \in forced \/ analyze(a, input).error # None)
          /\ Succeeded = {} =>
                /\ breakdown[1].total_score = Zero
                /\ breakdown[1].match_percentage = Zero
                /\ breakdown[1].confidence = Zero
                /\ breakdown[1].skills_match = {}
                /\ breakdown[1].missing_skills = {}
                /\ \A a \in AgentType :
                      /\ SubObjects(breakdown[1])[a].score = Zero
                      /\ SubObjects(breakdown[1])[a].error # None

C5_Witness ==
    /\ pc = "returned"
    /\ forced = AgentType
    /\ breakdown[1].total_score = Zero
    /\ breakdown[1].keyword_match.error = "Agent failed: forced"

\* C6: totals are computed and the breakdown is built only after all five tasks
\* have finished, with a result or with an error, and have been collected; before
\* that no total and no breakdown exist.
C6_JoinBarrier ==
    /\ pc \in {"aggregating", "returned"} =>
          /\ \A a \in AgentType : task[a] \in {"returned", "raised"}
          /\ AllCollected
    /\ pc \in {"dispatching", "collecting"} =>
          /\ breakdown = <<>>
          /\ total_score = Zero
          /\ total_confidence = Zero

C6_Witness ==
    /\ pc = "aggregating"
    /\ forced = {SKILL_MATCHING}
    /\ task[SKILL_MATCHING] = "raised"
    /\ task[SEMANTIC_SIMILARITY] = "returned"

\* the sum of the five weights in ten-thousandths, computed in integers
RECURSIVE TenThousandths(_, _)
TenThousandths(S, w) ==
    IF S = {} THEN 0
    ELSE LET a == CHOOSE x \in S : TRUE
         IN  (w[a].num * 10000) \div w[a].den + TenThousandths(S \ {a}, w)

WeightsOff == Abs(TenThousandths(AgentType, weight) - 10000)

\* C7: construction ends in a ValueError exactly when the five weights sum to a
\* value more than 0.001 away from 1.0; score_resume only ever runs on a coordinator
\* whose weights sum to 1.0 within 0.001; the configured weights are accepted.
C7_WeightCheck ==
    /\ coordinator = "ValueError" => WeightsOff > 10
    /\ coordinator = "ready" => WeightsOff <= 10
    /\ pc # "idle" => coordinator = "ready" /\ WeightsOff <= 10
    /\ weight = ConfiguredWeights => coordinator # "ValueError"

C7_Witness ==
    /\ coordinator = "ValueError"
    /\ TenThousandths(AgentType, weight) < 10000
    /\ pc = "idle"

\* C8: every AgentResult returned by an agent's analyze, on the normal, degraded
\* and internal-error branches alike, has its score and its confidence in [0, 1].
C8_AgentResultInUnitInterval ==
    \A a \in DOMAIN taskResult :
        /\ InUnit(taskResult[a].score)
        /\ InUnit(taskResult[a].confidence)

C8_Witness ==
    /\ KEYWORD_MATCHING \in DOMAIN taskResult
    /\ taskResult[KEYWORD_MATCHING].error = None
    /\ taskResult[KEYWORD_MATCHING].confidence = One
    /\ Cardinality(input.kw.rk) > input.kw.rwords
    /\ Cardinality(input.kw.jk) > input.kw.jwords

\* C9: in every AgentResult produced by an agent the percentage equals the stored
\* (clamped) score times 100, and so lies between 0 and 100.
C9_PercentageIsScoreTimes100 ==
    \A a \in DOMAIN taskResult :
        /\ taskResult[a].percentage = RMul(taskResult[a].score, Hundred)
        /\ RLe(Zero, taskResult[a].percentage)
        /\ RLe(taskResult[a].percentage, Hundred)

SkillRan == SKILL_MATCHING \in DOMAIN taskResult

\* canonical skills of the declared job skills, as a set
NormalizedJobSkills ==
    {normalize_skill(Lower(input.sk.jskills[i])) : i \in 1..Len(input.sk.jskills)} \ {None}

\* canonical skills of the candidate, as a set
NormalizedResumeSkills ==
    {normalize_skill(s) : s \in extract_skills(input.sk.mentions)} \ {None}

\* C11: if the set of normalized job skills is non-empty and contained in the set
\* of normalized candidate skills, the skill agent's score is exactly 1, also when
\* several entries of the job's list normalize to the same canonical skill.
C11_SubsetScoresOne ==
    (/\ SkillRan
     /\ input.malformed = "none"
     /\ NormalizedJobSkills # {}
     /\ NormalizedJobSkills \subseteq NormalizedResumeSkills)
        => taskResult[SKILL_MATCHING].score = One

\* C12: a profile that declares the skills Python and React, scored against the job
\* skills python and aws, has matched = {python}, missing = {aws} and score 0.5,
\* whatever the resume text contains.
C12_DeclaredSkillsCount ==
    (/\ SkillRan
     /\ input.malformed = "none"
     /\ input.sk.declared = <<"Python", "React">>
     /\ input.sk.jskills = <<"Python", "aws">>)
        => /\ taskResult[SKILL_MATCHING].evidence.matched_skills = {"python"}
           /\ taskResult[SKILL_MATCHING].evidence.missing_skills = {"aws"}
           /\ taskResult[SKILL_MATCHING].score = Rat(1, 2)

\* the phrases of the claim that disclaim a skill
Disclaimers == {"no experience with", "not familiar with"}

\* canonical skills that the text mentions, through a technical variant, and only
\* inside disclaimers
OnlyDisclaimed ==
    {c \in {normalize_skill(m[2]) : m \in input.sk.mentions} \ {None} :
        /\ \A m \in input.sk.mentions : normalize_skill(m[2]) = c => m[1] \in Disclaimers
        /\ \E m \in input.sk.mentions : normalize_skill(m[2]) = c /\ m[2] \in technical_skills}

\* C13: a technical skill that the resume text mentions only inside "no experience
\* with" or "not familiar with" is neither among the extracted resume skills nor
\* among the matched skills.
C13_NegativeContext ==
    (SkillRan /\ input.malformed = "none") =>
        \A c \in OnlyDisclaimed :
            /\ c \notin taskResult[SKILL_MATCHING].evidence.resume_skills
            /\ c \notin taskResult[SKILL_MATCHING].evidence.matched_skills

\* C14: the breakdown's matched and missing skill lists are those of the skill
\* agent's evidence; when the skill agent's result carries an error, raised or
\* reported by the agent itself, both lists are empty, whatever the other agents'
\* evidence holds.
C14_SkillListsFromSkillAgent ==
    pc = "returned" =>
        LET r == agent_results[SKILL_MATCHING]
            b == breakdown[1]
        IN  /\ r.error = None =>
                  /\ b.skills_match = r.evidence.matched_skills
                  /\ b.missing_skills = r.evidence.missing_skills
            /\ r.error # None =>
                  /\ b.skills_match = {}
                  /\ b.missing_skills = {}

C14_Witness ==
    /\ pc = "returned"
    /\ SKILL_MATCHING \in forced
    /\ agent_results[KEYWORD_MATCHING].error = None
    /\ agent_results[KEYWORD_MATCHING].evidence.matched_keywords # {}
    /\ agent_results[KEYWORD_MATCHING].evidence.missing_keywords # {}
    /\ breakdown[1].skills_match = {}
    /\ breakdown[1].missing_skills = {}

ExperienceRan ==
    /\ EXPERIENCE_RELEVANCE \in DOMAIN taskResult
    /\ input.malformed = "none"

EducationRan ==
    /\ EDUCATION_ALIGNMENT \in DOMAIN taskResult
    /\ input.malformed = "none"

\* junior < mid < senior
LevelRank(level) ==
    CASE level = "junior" -> 1
      [] level = "mid" -> 2
      [] level = "senior" -> 3

\* C15: whenever the candidate's years figure is at least the job's (or the job
\* states none) and the candidate's level is at least the job's, the experience
\* agent's score is exactly 1; so for "5 years, senior" against "3+ years, mid".
C15_ExperienceFullMatch ==
    ExperienceRan =>
        LET r == taskResult[EXPERIENCE_RELEVANCE]
            re == r.evidence.resume_experience
            je == r.evidence.job_experience
        IN  (/\ je.years = 0 \/ re.years >= je.years
             /\ LevelRank(re.level) >= LevelRank(je.level))
                => r.score = One /\ r.error = None

C15_Witness ==
    /\ ExperienceRan
    /\ input.ex.ryears = {5}
    /\ input.ex.rlevels = {"senior"}
    /\ input.ex.jyears = {3}
    /\ input.ex.jlevels = {"mid"}
    /\ taskResult[EXPERIENCE_RELEVANCE].evidence.resume_experience
           = [years |-> 5, level |-> "senior"]
    /\ taskResult[EXPERIENCE_RELEVANCE].evidence.job_experience
           = [years |-> 3, level |-> "mid"]
    /\ taskResult[EXPERIENCE_RELEVANCE].score = One

\* C16: when the job's requirement list is empty nothing is found in it, and then
\* the experience agent's years score is 1 and the education agent's level score
\* is 1 for every resume, in a result without error.
C16_NoRequirementFullCredit ==
    /\ (ExperienceRan /\ input.ex.jyears = {} /\ input.ex.jlevels = {}) =>
          LET r == taskResult[EXPERIENCE_RELEVANCE]
          IN  /\ r.error = None
              /\ years_score(r.evidence.resume_experience.years,
                             r.evidence.job_experience.years) = One
    /\ (EducationRan /\ input.ed.jdegrees = {} /\ ~ input.ed.jgeneric
            /\ input.ed.jfield = "general") =>
          LET r == taskResult[EDUCATION_ALIGNMENT]
          IN  /\ r.error = None
              /\ level_score(r.evidence.resume_education.level,
                             r.evidence.job_education.level) = One

C16_Witness ==
    /\ EducationRan
    /\ input.ed.jdegrees = {}
    /\ ~ input.ed.jgeneric
    /\ input.ed.jfield = "general"
    /\ input.ed.rdegrees = {"associate"}
    /\ taskResult[EDUCATION_ALIGNMENT].evidence.resume_education.level = 1
    /\ taskResult[EDUCATION_ALIGNMENT].evidence.job_education.level = 0
    /\ taskResult[EDUCATION_ALIGNMENT].error = None

KeywordRan ==
    /\ KEYWORD_MATCHING \in DOMAIN taskResult
    /\ input.malformed = "none"

\* C17: when the job text yields at least one keyword the keyword agent's score is
\* |resume keywords /\ job keywords| / |job keywords|, at most 1, with no error;
\* when it yields none the score is 0 and the result carries an error.
C17_KeywordScore ==
    KeywordRan =>
        LET r == taskResult[KEYWORD_MATCHING]
            rk == input.kw.rk
            jk == input.kw.jk
        IN  /\ jk # {} =>
                  /\ r.score = Rat(Cardinality(rk \cap jk), Cardinality(jk))
                  /\ RLe(r.score, One)
                  /\ r.error = None
            /\ jk = {} =>
                  /\ r.score = Zero
                  /\ r.error # None

C17_Witness ==
    /\ KeywordRan
    /\ Cardinality(input.kw.jk) = 2
    /\ Cardinality(input.kw.rk \cap input.kw.jk) = 1
    /\ taskResult[KEYWORD_MATCHING].score = Rat(1, 2)
    /\ taskResult[KEYWORD_MATCHING].error = None

\* C18: when the two texts share no vocabulary keyword the keyword agent's score is
\* 0, and when at least one of the two texts holds a vocabulary keyword its
\* confidence is not 0.
C18_NoSharedKeyword ==
    (KeywordRan /\ input.kw.rk \cap input.kw.jk = {}) =>
        /\ taskResult[KEYWORD_MATCHING].score = Zero
        /\ (input.kw.rk # {} \/ input.kw.jk # {}) =>
               taskResult[KEYWORD_MATCHING].confidence # Zero

\* the same pair with both embeddings available
WithEmbeddings == [input EXCEPT !.se = DefaultSe]

ProviderGivesNone == ~ input.se.remb.some \/ ~ input.se.jemb.some

\* agents other than the semantic one whose result carries no error
OtherSucceeded == Succeeded \ {SEMANTIC_SIMILARITY}

\* the semantic agent's result is zero with an error, and the other agents' results
\* and their share of total_score are those of the pair with embeddings available
EmbeddingFailureConfined ==
    /\ agent_results[SEMANTIC_SIMILARITY].score = Zero
    /\ agent_results[SEMANTIC_SIMILARITY].confidence = Zero
    /\ agent_results[SEMANTIC_SIMILARITY].error # None
    /\ \A a \in AgentType \ (forced \cup {SEMANTIC_SIMILARITY}) :
          agent_results[a] = analyze(a, WithEmbeddings)
    /\ breakdown[1].total_score =
           SumOver(OtherSucceeded,
                   [a \in OtherSucceeded |->
                       RMul(analyze(a, WithEmbeddings).score, ConfiguredWeights[a])])

SemanticRanInCall ==
    /\ pc = "returned"
    /\ input.malformed = "none"
    /\ SEMANTIC_SIMILARITY \notin forced

\* C19 as stated: an embedding is unavailable when the provider gives none or the
\* text has fewer than 10 non-blank characters; then the semantic agent's result is
\* zero with an error and the other four agents' results and their share of
\* total_score are unchanged.
C19_ShortByNonBlankCount ==
    (/\ SemanticRanInCall
     /\ \/ ProviderGivesNone
        \/ input.se.rtext.nonblank < MinTextLength
        \/ input.se.jtext.nonblank < MinTextLength)
        => EmbeddingFailureConfined

\* C19 amended: an embedding is unavailable when the provider gives none or the
\* text, stripped of leading and trailing whitespace, has fewer than 10 characters
\* (blanks inside it count); then the semantic agent's result is zero with an error
\* and the other four agents' results and their share of total_score are unchanged.
C19_EmbeddingFailureConfined ==
    (/\ SemanticRanInCall
     /\ \/ ProviderGivesNone
        \/ input.se.rtext.stripped < MinTextLength
        \/ input.se.jtext.stripped < MinTextLength)
        => EmbeddingFailureConfined

C19_Witness ==
    /\ SemanticRanInCall
    /\ input.se.rtext.stripped < MinTextLength
    /\ input.se.remb.some
    /\ input.se.jemb.some
    /\ agent_results[SEMANTIC_SIMILARITY].error = "Failed to generate embeddings"
    /\ OtherSucceeded = AgentType \ {SEMANTIC_SIMILARITY}
    /\ RLt(Zero, breakdown[1].total_score)

\* one step of a call: the position stays, or moves to the next one in the order
\* idle, dispatching, collecting, aggregating, returned; after the return the
\* coordinator rests or takes the next call
StepInOrder ==
    \/ pc' = pc /\ (pc = "returned" => breakdown' = breakdown)
    \/ pc = "idle" /\ pc' = "dispatching"
    \/ pc = "dispatching" /\ pc' = "collecting"
    \/ pc = "collecting" /\ pc' = "aggregating"
    \/ pc = "aggregating" /\ pc' = "returned" /\ Len(breakdown') = 1
    \/ pc = "returned" /\ pc' \in {"idle", "dispatching"}

\* C20: a call moves idle -> dispatching -> collecting -> aggregating in that
\* order and never backwards, and, every task finishing or raising, a call that
\* was dispatched reaches its aggregation and returns exactly one breakdown.
C20_CoordinatorProgress ==
    /\ [][StepInOrder]_vars
    /\ (pc = "dispatching") ~> (pc = "returned" /\ Len(breakdown) = 1)

C20_Witness ==
    /\ pc = "returned"
    /\ Len(breakdown) = 1
    /\ forced = {KEYWORD_MATCHING, SEMANTIC_SIMILARITY}
    /\ task[KEYWORD_MATCHING] = "raised"
    /\ task[SKILL_MATCHING] = "returned"
    /\ ncall = MaxCalls

\* one step of a call as far as the tasks go: a task is created only by the
\* dispatch, which creates all five; a finished task stays as it finished and a
\* collected result stays as it was collected, until the call is over
NoRetryStep ==
    \A a \in AgentType :
        /\ (task'[a] = "pending" /\ task[a] # "pending")
               => (pc = "dispatching" /\ task[a] = "none")
        /\ (pc = "dispatching" /\ pc' = "collecting") => task'[a] = "pending"
        /\ (task[a] \in {"returned", "raised"} /\ pc' \notin {"idle", "dispatching"})
               => task'[a] = task[a]
        /\ (a \in DOMAIN agent_results /\ pc' \notin {"idle", "dispatching"})
               => (a \in DOMAIN agent_results' /\ agent_results'[a] = agent_results[a])

\* the result of a task that raised, where the call has returned
FailedResultUsed ==
    pc = "returned" =>
        /\ \A a \in AgentType : task[a] = "raised" =>
              /\ agent_results[a] = error_result(a)
              /\ breakdown[1].agent_results[a] = error_result(a)
              /\ SubObjects(breakdown[1])[a].score = Zero
              /\ SubObjects(breakdown[1])[a].error = "Agent failed: forced"
        /\ breakdown[1].total_score =
              SumOver({a \in AgentType : task[a] = "returned" /\ taskResult[a].error = None},
                      [a \in AgentType |->
                          IF task[a] = "returned"
                          THEN RMul(taskResult[a].score, taskResult[a].weight)
                          ELSE Zero])

\* C21: within one call each agent's analyze is dispatched exactly once; an agent
\* that failed is never dispatched again in that call, and its zero/error result
\* is the one used in the aggregation and in the returned breakdown.
C21_NoRetry ==
    /\ []FailedResultUsed
    /\ [][NoRetryStep]_vars

C21_Witness ==
    /\ pc = "returned"
    /\ forced = {EXPERIENCE_RELEVANCE}
    /\ task[EXPERIENCE_RELEVANCE] = "raised"
    /\ breakdown[1].experience_relevance.error = "Agent failed: forced"
    /\ breakdown[1].keyword_match.error = None
    /\ RLt(Zero, breakdown[1].total_score)

\* the five agents run one after another, alone, on (inp, f)
IsolatedResults(inp, f) ==
    [a \in AgentType |-> IF a \in f THEN error_result(a) ELSE analyze(a, inp)]

\* the breakdown computed from the agents run one after another
IsolatedBreakdown(inp, f, n) ==
    LET results == IsolatedResults(inp, f)
        score == accumulate(results, "score")
    IN  [keyword_match |-> format_agent_result(results, KEYWORD_MATCHING),
         skills_alignment |-> format_agent_result(results, SKILL_MATCHING),
         experience_relevance |-> format_agent_result(results, EXPERIENCE_RELEVANCE),
         education_alignment |-> format_agent_result(results, EDUCATION_ALIGNMENT),
         semantic_similarity |-> format_agent_result(results, SEMANTIC_SIMILARITY),
         total_score |-> score,
         match_percentage |-> RMul(score, Hundred),
         skills_match |-> skills_from(results, "matched_skills"),
         missing_skills |-> skills_from(results, "missing_skills"),
         agent_results |-> results,
         confidence |-> normalize_confidence(results, accumulate(results, "confidence")),
         timestamp |-> n]

\* what the call with frame F holds is what the isolated run gives
SameAsIsolated(F) ==
    /\ \A a \in DOMAIN F.taskResult : F.taskResult[a] = analyze(a, F.input)
    /\ \A a \in DOMAIN F.agent_results :
          F.agent_results[a] = IsolatedResults(F.input, F.forced)[a]
    /\ F.pc = "returned" =>
          F.breakdown = <<IsolatedBreakdown(F.input, F.forced, F.ncall)>>

CurrentYear == 2026

\* the spans of the date ranges of the resume text, an open range running to the
\* current calendar year
RangeSpans ==
    {r[2] - r[1] : r \in input.ex.closed} \cup {CurrentYear - y : y \in input.ex.open}

\* C23: when the resume text has no explicit years figure, the years figure is the
\* maximum span over its date ranges, a range "YYYY - ZZZZ" contributing ZZZZ - YYYY
\* and an open range "YYYY - present / current / now" contributing the current
\* calendar year - YYYY.
C23_DateRangeFallback ==
    (/\ ExperienceRan
     /\ input.ex.ryears = {}
     /\ RangeSpans # {})
        => taskResult[EXPERIENCE_RELEVANCE].evidence.resume_experience.years
               = Max(RangeSpans)

\* C24: on every path, explicit figure or date-range inference, the candidate's
\* years figure in the evidence is within 0..50, so that the years score is never
\* negative.
C24_YearsInRange ==
    ExperienceRan =>
        LET evidence == taskResult[EXPERIENCE_RELEVANCE].evidence
        IN  /\ evidence.resume_experience.years \in 0..50
            /\ RLe(Zero, years_score(evidence.resume_experience.years,
                                     evidence.job_experience.years))

\* C25: when the job's requirement text holds neither a years figure nor a
\* seniority keyword, the target level extracted for the job is "mid".
C25_JobLevelDefaultMid ==
    (/\ ExperienceRan
     /\ input.ex.jyears = {}
     /\ input.ex.jlevels = {})
        => taskResult[EXPERIENCE_RELEVANCE].evidence.job_experience.level = "mid"

\* the hierarchy: high school = 0, associate / diploma = 1, bachelor = 2,
\* master = 3, doctorate = 4
HierarchyLevel(class) ==
    CASE class = "phd" -> 4
      [] class = "masters" -> 3
      [] class = "bachelors" -> 2
      [] class = "associate" -> 1
      [] class = "high school" -> 0

\* C26: the numeric level extracted from a text is that of the highest-ranked
\* degree it mentions: a resume whose only degree mention is a bachelor's gets
\* level 2, one that mentions a bachelor's and a master's gets level 3.
C26_HighestDegreeLevel ==
    (EducationRan /\ input.ed.rdegrees # {})
        => taskResult[EDUCATION_ALIGNMENT].evidence.resume_education.level
               = Max({HierarchyLevel(c) : c \in input.ed.rdegrees})

\* C27: a requirement text that mentions a generic "degree" and no specific level
\* asks for level 2 (bachelor); one that mentions no degree at all asks for
\* level 0 (high school, no requirement).
C27_JobDegreeDefault ==
    (EducationRan /\ input.ed.jdegrees = {})
        => taskResult[EDUCATION_ALIGNMENT].evidence.job_education.level
               = IF input.ed.jgeneric THEN 2 ELSE 0

\* the semantic agent has run alone, with an embedding for both texts
SemanticRanWithBoth ==
    /\ SEMANTIC_SIMILARITY \in DOMAIN taskResult
    /\ input.malformed = "none"
    /\ generate_embedding(input.se.rtext, input.se.remb).some
    /\ generate_embedding(input.se.jtext, input.se.jemb).some

\* the three defects of a pair of vectors
DimensionMismatch == Len(input.se.remb.v) # Len(input.se.jemb.v)
AllZeroVector == \E e \in {input.se.remb, input.se.jemb} :
                     e.nonfinite = {} /\ \A i \in 1..Len(e.v) : e.v[i] = 0
NonFiniteValue == input.se.remb.nonfinite # {} \/ input.se.jemb.nonfinite # {}

\* C28: with both embeddings available, each of the three defects (different
\* dimensions, an all-zero vector, a non-finite value) yields a confidence
\* between 0.1 and 0.3; with none of them the confidence is one of the
\* variance-based levels 0.6, 0.8, 1.0.
C28_EmbeddingConfidence ==
    SemanticRanWithBoth =>
        LET confidence == taskResult[SEMANTIC_SIMILARITY].confidence
        IN  IF DimensionMismatch \/ AllZeroVector \/ NonFiniteValue
            THEN RLe(Rat(1, 10), confidence) /\ RLe(confidence, Rat(3, 10))
            ELSE confidence \in {Rat(6, 10), Rat(8, 10), One}

\* agents whose task returned normally with a result that carries an error
SelfReported ==
    {a \in DOMAIN agent_results : task[a] = "returned" /\ agent_results[a].error # None}

\* agents whose task returned a result without error
Counted ==
    {a \in DOMAIN agent_results : task[a] = "returned" /\ agent_results[a].error = None}

\* C29: a result returned normally but carrying an error (no job keywords, no job
\* skills or none that normalize, no embeddings, an agent's own except branch)
\* adds nothing to total_score and its weight is left out of the confidence
\* renormalization, like a crash; for a job that declares no skills total_score
\* is at most 0.75.
C29_SelfReportedErrors ==
    pc \in {"aggregating", "returned"} =>
        /\ total_score =
               SumOver(Counted, [a \in Counted |->
                   RMul(agent_results[a].score, ConfiguredWeights[a])])
        /\ total_confidence =
               IF Counted = {} THEN Zero
               ELSE RDiv(SumOver(Counted, [a \in Counted |->
                             RMul(agent_results[a].confidence, ConfiguredWeights[a])]),
                         SumOver(Counted, [a \in Counted |-> ConfiguredWeights[a]]))
        /\ Len(input.sk.jskills) = 0 => RLe(total_score, Rat(75, 100))

C29_Witness ==
    /\ pc = "returned"
    /\ forced = {}
    /\ Len(input.sk.jskills) = 0
    /\ input.kw.jk # {}
    /\ SelfReported = {SKILL_MATCHING, SEMANTIC_SIMILARITY}
    /\ agent_results[SKILL_MATCHING].error = "No skills specified in job description"
    /\ RLt(Zero, breakdown[1].total_score)
    /\ RLt(Zero, breakdown[1].confidence)

\* C30: for every taxonomy, normalization is single-valued and idempotent: a
\* string that normalizes to a canonical name c (not None) is such that c
\* normalizes to c, also when the canonical name of one skill is listed as a
\* variation of another skill.
C30_NormalizeIdempotent ==
    (pc = "normalized" /\ breakdown[1].normalized # None)
        => normalize_skill_in(taskResult, breakdown[1].normalized)
               = breakdown[1].normalized

====
